---- MODULE Spec2Model ----
(***************************************************************************)
(* Sanitas: the GetGeneralStudentInfo lambda handler, the frontend data    *)
(* layer (searchPatient, submitPatientData) and the SearchPatientView and  *)
(* PatientForm components.                                                 *)
(*                                                                         *)
(* Six specifications share the variables; each leaves the others' part   *)
(* of the state untouched:                                                 *)
(*   Spec        one invocation after another of the student-info handler  *)
(*   ApiSpec     calls of searchPatient against every server outcome       *)
(*   SearchSpec  SearchPatientView with searchPatient as its API call      *)
(*   FormSpec    AddPatientView / PatientForm with submitPatientData       *)
(*   PatientSpec concurrent POST /patient requests on the PACIENTE table   *)
(*   SurgicalSpec GET /patient/surgical-history/{id} lookups               *)
(***************************************************************************)
EXTENDS Integers, Sequences, FiniteSets, TLC

VARIABLES
    \* ---- student-info handler (one invocation) ----
    pc,          \* position of the invocation: idle, connecting, querying, finally, done
    event,       \* the API Gateway event of the invocation
    estudiante,  \* rows of the ESTUDIANTE table
    client,      \* the `client` local: "undefined", or the pg client's state:
                 \* "created", "connected", "ended" (end() has been called)
    dbResponse,  \* the `dbResponse` local
    queries,     \* number of SQL statements the invocation has executed
    response,    \* the response the invocation is about to return / has returned
    outcome,     \* "pending", "returned" or "thrown"
    raised,      \* the exception raised during the invocation, NoError when none;
                 \* it reached the caller when outcome = "thrown"
    \* ---- SearchPatientView ----
    searchQuery, \* store.searchQuery: [query, type]
    patients,    \* store.patients
    error,       \* the view's error message state
    inflight,    \* sequence of the searchPatientsApiCall calls not yet resolved
    issued,      \* number of calls the view has issued
    resolved,    \* number of calls that have settled
    lastAnswer,  \* the server's answer to the call that settled last (its kind and
                 \* status, and whether the call came back as { error }), forgotten
                 \* at the next click
    \* ---- searchPatient, called on its own ----
    apiCall,     \* the last call: its query, type and the server's answer
    apiResult,   \* what that call settled to
    \* ---- PatientForm ----
    patientData, \* AddPatientView's patientData state
    submitted,   \* sequence of the patientData objects passed to submitPatientData
    posted,      \* sequence of the bodies submitPatientData POSTed to /patient
    lastAlert,   \* the message of the last alert() shown
    presses,     \* number of presses of the form's button
    selectedPatientId, \* store.selectedPatientId
    route,       \* the page shown: the form's, or NAV_PATHS.UPDATE_PATIENT
    \* ---- POST /patient ----
    paciente,    \* rows of the PACIENTE table
    posts,       \* the POST /patient requests received, in order of arrival,
                 \* each with its position and its answer
    \* ---- GET /patient/surgical-history/{id} ----
    surgeries,   \* rows of the surgical-history table
    lookup       \* the lookup in progress or answered last

handlerVars == <<pc, event, estudiante, client, dbResponse, queries,
                 response, outcome, raised>>
searchVars  == <<searchQuery, patients, error, inflight, issued, resolved,
                 lastAnswer>>
apiVars     == <<apiCall, apiResult>>
formVars    == <<patientData, submitted, posted, lastAlert, presses,
                 selectedPatientId, route>>
patientVars == <<paciente, posts>>
surgicalVars == <<surgeries, lookup>>
vars        == <<handlerVars, searchVars, apiVars, formVars, patientVars,
                 surgicalVars>>

\* Each component leaves the state of the others alone
OutsideHandler == UNCHANGED <<searchVars, apiVars, formVars, patientVars, surgicalVars>>
OutsideApi     == UNCHANGED <<handlerVars, searchVars, formVars, patientVars, surgicalVars>>
OutsideSearch  == UNCHANGED <<handlerVars, apiVars, formVars, patientVars, surgicalVars>>
OutsideForm    == UNCHANGED <<handlerVars, searchVars, apiVars, patientVars, surgicalVars>>
OutsidePatient == UNCHANGED <<handlerVars, searchVars, apiVars, formVars, surgicalVars>>
OutsideSurgical == UNCHANGED <<handlerVars, searchVars, apiVars, formVars, patientVars>>

(***************************************************************************)
(* JavaScript values, as far as the code distinguishes them.               *)
(***************************************************************************)
Undefined == [t |-> "undefined", v |-> ""]
Null      == [t |-> "null", v |-> ""]
Str(s)    == [t |-> "string", v |-> s]
Num(s)    == [t |-> "number", v |-> s]

\* !x is false exactly for the truthy values
Truthy(x) ==
    CASE x.t = "undefined" -> FALSE
      [] x.t = "null"      -> FALSE
      [] x.t = "string"    -> x.v # ""
      [] x.t = "number"    -> x.v # "0"
      [] OTHER             -> TRUE

\* An Error object: `enumerable` is the text of its own enumerable properties,
\* the only part JSON.stringify keeps ("" for a plain Error, whose message and
\* stack are not enumerable).
Err(name, message, enumerable) ==
    [name |-> name, message |-> message, enumerable |-> enumerable]
NoError == Err("", "", "")

(***************************************************************************)
(* Bounds of the model.                                                    *)
(***************************************************************************)
MaxPatientId == 2    \* ESTUDIANTE rows have ID_PACIENTE in 1..MaxPatientId
MaxRecords   == 2    \* a search response holds at most MaxRecords records
MaxClicks    == 2    \* searches one run of SearchPatientView issues
MaxSubmits   == 2    \* presses of "Registrar informacion" in one run of the form
MaxRequests  == 2    \* POST /patient requests in one run

(***************************************************************************)
(* The response envelope and the response builder of the utils layer.      *)
(***************************************************************************)
NoStudent == [patientId |-> 0, carnet |-> "", career |-> ""]

\* A body: a JSON string (isString) holding {message: text} or the serialized
\* error `text`, or the plain object a mapper returned.
Body(isString, kind, text, student) ==
    [isString |-> isString, kind |-> kind, text |-> text, student |-> student]
NoBody == Body(FALSE, "none", "", NoStudent)

\* JSON.stringify({ message })
JSONStringifyMessage(message) == Body(TRUE, "message", message, NoStudent)

\* JSON.stringify(error): only the error's own enumerable properties survive
JSONStringifyError(e) == Body(TRUE, "error", e.enumerable, NoStudent)

NoResponse == [statusCode |-> 0, headers |-> {}, body |-> NoBody]

createResponse == [statusCode |-> 0, headers |-> {}, body |-> NoBody]
setStatusCode(r, status) == [r EXCEPT !.statusCode = status]
addCORSHeaders(r) ==
    [r EXCEPT !.headers = @ \cup { <<"Access-Control-Allow-Headers", "Content-Type">>,
                                    <<"Access-Control-Allow-Origin", "*">>,
                                    <<"Access-Control-Allow-Methods", "GET">> }]
setBody(r, body) == [r EXCEPT !.body = body]
build(r) == r

\* mapToAPIStudentInfo: storage column names to API field names
mapToAPIStudentInfo(row) ==
    [patientId |-> row.id_paciente, carnet |-> row.carnet, career |-> row.carrera]

(***************************************************************************)
(* GetGeneralStudentInfo: the handler's inputs and its environment.        *)
(***************************************************************************)
HttpMethods == {"GET", "POST", "DELETE"}

\* event.pathParameters: absent, or an object whose id is undefined, "" or a text
PathIds == {Undefined, Str(""), Str("1"), Str("2"), Str("3"), Str("abc")}
PathParameters ==
    {[present |-> FALSE, id |-> Undefined]} \cup [present : {TRUE}, id : PathIds]
Events == [httpMethod : HttpMethods, pathParameters : PathParameters]
NoEvent == [httpMethod |-> "", pathParameters |-> [present |-> FALSE, id |-> Undefined]]

StudentRows ==
    [id_paciente : 1..MaxPatientId, carnet : {"22386"}, carrera : {"Medicina", "Derecho"}]
NoDbResponse == [rowCount |-> -1, rows |-> <<>>]

\* Postgres reading the text parameter $1 as the integer ID_PACIENTE: 0 when
\* the text is no integer (the statement then fails with error 22P02).
PgInteger(s) ==
    CASE s = "1" -> 1 [] s = "2" -> 2 [] s = "3" -> 3 [] s = "4" -> 4 [] OTHER -> 0

MethodError(method) ==
    Err("Error", "/patient/student/{id} only accepts GET method, you tried: " \o method, "")
PathParametersTypeError ==
    Err("TypeError", "Cannot read properties of undefined (reading 'id')", "")
GetClientErrors == { Err("TypeError", "Invalid URL", "code:ERR_INVALID_URL") }
ConnectErrors ==
    { Err("Error", "connect ECONNREFUSED", "errno:-111,code:ECONNREFUSED,syscall:connect"),
      Err("Error", "Connection terminated unexpectedly", "") }
InvalidIntegerError ==
    Err("error", "invalid input syntax for type integer", "severity:ERROR,code:22P02")
QueryErrors ==
    { InvalidIntegerError, Err("Error", "Connection terminated unexpectedly", "") }

Ok == Err("ok", "", "")   \* an awaited call that did not reject

(***************************************************************************)
(* The responses the handler builds.                                       *)
(***************************************************************************)
\* lines 28-36
BadRequestResponse ==
    [statusCode |-> 400,
     headers |-> { <<"Access-Control-Allow-Headers", "Content-Type">>,
                   <<"Access-Control-Allow-Origin", "*">>,
                   <<"Access-Control-Allow-Methods", "GET">> },
     body |-> JSONStringifyMessage("Invalid request: No id supplied!")]

\* lines 49-53
NotFoundResponse ==
    build(setBody(addCORSHeaders(setStatusCode(createResponse, 404)),
        JSONStringifyMessage("Invalid request: No student with the given ID found.")))

\* lines 59-63: the body is the mapped row itself, not a string
OkResponse(row) ==
    build(setBody(addCORSHeaders(setStatusCode(createResponse, 200)),
        Body(FALSE, "student", "", mapToAPIStudentInfo(row))))

\* the catch block returning its unused local `response` (no headers)
CatchResponseLocal(e) ==
    [statusCode |-> 500, headers |-> {}, body |-> JSONStringifyError(e)]

\* lines 64-74: the catch block
CatchResponse(e) ==
    build(setBody(addCORSHeaders(setStatusCode(createResponse, 500)),
        JSONStringifyError(e)))

\* the 404 branch answering with the success status
RespondToQueryAlways200(d) ==
    IF d.rowCount = 0
    THEN setStatusCode(NotFoundResponse, 200)
    ELSE OkResponse(d.rows[1])

\* lines 46-63
RespondToQuery(d) ==
    IF d.rowCount = 0 THEN NotFoundResponse ELSE OkResponse(d.rows[1])

\* end() only on a client whose connect() succeeded
EndClientIfConnected(c) == IF c = "connected" THEN "ended" ELSE c

\* line 76: await client?.end() (pg's end() resolves, it does not reject)
EndClient(c) == IF c = "undefined" THEN "undefined" ELSE "ended"

(***************************************************************************)
(* The handler, split at its awaits.                                       *)
(***************************************************************************)
HandlerInit ==
    /\ pc = "idle"
    /\ event = NoEvent
    /\ estudiante \in SUBSET StudentRows
    /\ client = "undefined"
    /\ dbResponse = NoDbResponse
    /\ queries = 0
    /\ response = NoResponse
    /\ outcome = "pending"
    /\ raised = NoError

\* lines 9-22: a new invocation, up to `await client.connect()`
Invoke(ev, getClient) ==
    /\ OutsideHandler
    /\ pc \in {"idle", "done"}
    /\ event' = ev
    /\ dbResponse' = NoDbResponse
    /\ queries' = 0
    /\ IF ev.httpMethod # "GET"
       THEN /\ pc' = "done"
            /\ outcome' = "thrown"
            /\ raised' = MethodError(ev.httpMethod)
            /\ client' = "undefined"
            /\ response' = NoResponse
       ELSE /\ outcome' = "pending"
            /\ IF getClient = Ok
               THEN /\ client' = "created"
                    /\ raised' = NoError
                    /\ response' = NoResponse
                    /\ pc' = "connecting"
               ELSE /\ client' = "undefined"
                    /\ raised' = getClient
                    /\ response' = CatchResponse(getClient)
                    /\ pc' = "finally"
    /\ UNCHANGED estudiante

\* only an id that is undefined counts as missing
MissingIdUndefinedOnly(id) == id = Undefined

\* line 26: if (!id)
MissingId(id) == ~Truthy(id)

\* lines 22-43: connect() settles; parameters are read; the query is sent
ConnectDone(result) ==
    /\ OutsideHandler
    /\ pc = "connecting"
    /\ IF result # Ok
       THEN /\ raised' = result
            /\ response' = CatchResponse(result)
            /\ pc' = "finally"
            /\ UNCHANGED <<client, queries>>
       ELSE /\ client' = "connected"
            /\ IF ~event.pathParameters.present
               THEN /\ raised' = PathParametersTypeError
                    /\ response' = CatchResponse(PathParametersTypeError)
                    /\ pc' = "finally"
                    /\ UNCHANGED queries
               ELSE IF MissingId(event.pathParameters.id)
               THEN /\ response' = BadRequestResponse
                    /\ pc' = "finally"
                    /\ UNCHANGED <<queries, raised>>
               ELSE /\ queries' = queries + 1
                    /\ pc' = "querying"
                    /\ UNCHANGED <<response, raised>>
    /\ UNCHANGED <<event, estudiante, dbResponse, outcome>>

\* SELECT * FROM estudiante WHERE ID_PACIENTE = $1 LIMIT 1
QueryResults(id) ==
    LET n == PgInteger(id.v)
        matching == {r \in estudiante : r.id_paciente = n}
    IN  IF n = 0 THEN {}
        ELSE IF matching = {} THEN { [rowCount |-> 0, rows |-> <<>>] }
        ELSE { [rowCount |-> 1, rows |-> <<r>>] : r \in matching }

\* lines 43-63: the query settles and the response is built
QueryDone(result) ==
    /\ OutsideHandler
    /\ pc = "querying"
    /\ IF result # Ok
       THEN /\ result = InvalidIntegerError => PgInteger(event.pathParameters.id.v) = 0
            /\ raised' = result
            /\ response' = CatchResponse(result)
            /\ UNCHANGED dbResponse
       ELSE \E d \in QueryResults(event.pathParameters.id) :
                /\ dbResponse' = d
                /\ response' = RespondToQuery(d)
                /\ UNCHANGED raised
    /\ pc' = "finally"
    /\ UNCHANGED <<event, estudiante, client, queries, outcome>>

\* lines 75-77: the finally block, then the invocation returns its response
Finally ==
    /\ OutsideHandler
    /\ pc = "finally"
    /\ client' = EndClient(client)
    /\ outcome' = "returned"
    /\ pc' = "done"
    /\ UNCHANGED <<event, estudiante, dbResponse, queries, response, raised>>

(***************************************************************************)
(* dataLayer: searchPatient.                                               *)
(***************************************************************************)
\* Texts the user types are sequences of characters.
Queries == { <<>>, <<" ">>, <<"a">>, <<" ", "b", " ">> }
SearchTypes == {"Carnet", "CodigoColaborador", "Nombres"}

\* What the server can answer with: the fields of a record of response.data
RecordIds       == {Undefined, Num("0"), Num("1"), Num("2")}
RecordNombres   == {Undefined, Str(""), Str("Ana")}
RecordApellidos == {Null, Str("Paz")}
Records == [id : RecordIds, nombres : RecordNombres, apellidos : RecordApellidos]

RECURSIVE SeqsUpTo(_, _)
SeqsUpTo(S, n) ==
    IF n = 0 THEN { <<>> }
    ELSE LET shorter == SeqsUpTo(S, n - 1)
         IN  shorter \cup { Append(q, x) : q \in {t \in shorter : Len(t) = n - 1}, x \in S }

\* The outcome of axios.post: a 2xx response with data (an array of records,
\* or something that is no array), an HTTP error status, or no response at all.
ServerOutcomes ==
    [kind : {"success"}, status : {200}, isArray : {TRUE}, data : SeqsUpTo(Records, MaxRecords)]
    \cup [kind : {"success"}, status : {200}, isArray : {FALSE}, data : { <<>> }]
    \cup [kind : {"httpError"}, status : {400, 404, 500, 502}, isArray : {FALSE}, data : { <<>> }]
    \cup [kind : {"network"}, status : {0}, isArray : {FALSE}, data : { <<>> }]

\* An Error of the data layer: with { cause } when it wraps an axios error;
\* causeStatus is the cause's response.status, 0 when the cause has no response.
ApiError(message, hasCause, causeStatus) ==
    [message |-> message, hasCause |-> hasCause, causeStatus |-> causeStatus]
NoApiError == ApiError("", FALSE, 0)

\* String(x) as a template literal converts x
TemplateString(x) ==
    CASE x.t = "undefined" -> "undefined"
      [] x.t = "null"      -> "null"
      [] OTHER             -> x.v

\* A completion of a block of code: normal with a value, or a throw
Normal(value)  == [threw |-> FALSE, value |-> value, error |-> NoApiError]
Throw(e)       == [threw |-> TRUE, value |-> <<>>, error |-> e]

\* lines 57-72 without the `apellidos` check
MapRecordNoApellidosCheck(r) ==
    IF ~Truthy(r.id) THEN Throw(ApiError("Received patient has no id!", FALSE, 0))
    ELSE IF ~Truthy(r.nombres)
    THEN Throw(ApiError("Received patient has no names!", FALSE, 0))
    ELSE Normal(<< [id |-> r.id, names |-> TemplateString(r.nombres) \o " " \o TemplateString(r.apellidos)] >>)

\* lines 56-73: the callback of response.data.map (the messages' backquotes
\* around the field name are left out)
MapRecord(r) ==
    IF ~Truthy(r.id) THEN Throw(ApiError("Received patient has no id!", FALSE, 0))
    ELSE IF ~Truthy(r.nombres)
    THEN Throw(ApiError("Received patient has no names!", FALSE, 0))
    ELSE IF ~Truthy(r.apellidos)
    THEN Throw(ApiError("Received patient has no apellidos!", FALSE, 0))
    ELSE Normal(<< [id |-> r.id, names |-> TemplateString(r.nombres) \o " " \o TemplateString(r.apellidos)] >>)

\* Array.prototype.map: the callback on each element in order, the first throw ends it
RECURSIVE MapRecords(_)
MapRecords(data) ==
    IF data = <<>> THEN Normal(<<>>)
    ELSE LET first == MapRecord(Head(data))
         IN  IF first.threw THEN first
             ELSE LET rest == MapRecords(Tail(data))
                  IN  IF rest.threw THEN rest ELSE Normal(first.value \o rest.value)

\* lines 38-75: the body of the outer try
SearchPatientTry(query, type, server) ==
    IF server.kind # "success"
    THEN Throw(ApiError("API ERROR", TRUE, server.status))
    ELSE IF ~server.isArray
    THEN Throw(ApiError("response.data.map is not a function", FALSE, 0))
    ELSE MapRecords(server.data)

\* What an async function settles to: resolved with an object, or rejected
Resolved(keys, result, e) ==
    [settled |-> "resolved", keys |-> keys, result |-> result, error |-> e]
Rejected(e) ==
    [settled |-> "rejected", keys |-> {}, result |-> <<>>, error |-> e]
NoApiResult == [settled |-> "pending", keys |-> {}, result |-> <<>>, error |-> NoApiError]

\* searchPatient with only the inner try/catch: mapping errors escape
searchPatientNoOuterCatch(query, type, server) ==
    LET c == SearchPatientTry(query, type, server)
    IN  IF c.threw
        THEN IF c.error.hasCause THEN Resolved({"error"}, <<>>, c.error) ELSE Rejected(c.error)
        ELSE Resolved({"result"}, c.value, NoApiError)

\* lines 36-79
searchPatient(query, type, server) ==
    LET c == SearchPatientTry(query, type, server)
    IN  IF c.threw
        THEN Resolved({"error"}, <<>>, c.error)
        ELSE Resolved({"result"}, c.value, NoApiError)

NoApiCall == [query |-> <<>>, type |-> "", called |-> FALSE,
              server |-> [kind |-> "network", status |-> 0, isArray |-> FALSE, data |-> <<>>]]

ApiInit ==
    /\ apiCall = NoApiCall
    /\ apiResult = NoApiResult

ApiCalls ==
    [query : Queries, type : SearchTypes, called : {FALSE}, server : ServerOutcomes]

\* one call of searchPatient, from the request to the settled promise
SearchPatientCall ==
    /\ OutsideApi
    /\ ~apiCall.called
    /\ apiCall' = [apiCall EXCEPT !.called = TRUE]
    /\ apiResult' = searchPatient(apiCall.query, apiCall.type, apiCall.server)

(***************************************************************************)
(* SearchPatientView.                                                      *)
(***************************************************************************)
Whitespace == {" "}

RECURSIVE TrimStart(_)
TrimStart(s) ==
    IF s # <<>> /\ Head(s) \in Whitespace THEN TrimStart(Tail(s)) ELSE s

RECURSIVE TrimEnd(_)
TrimEnd(s) ==
    IF s # <<>> /\ s[Len(s)] \in Whitespace THEN TrimEnd(SubSeq(s, 1, Len(s) - 1)) ELSE s

\* String.prototype.trim
Trim(s) == TrimEnd(TrimStart(s))

\* the test without trim()
emptyQueryNoTrim(query) == Len(query) <= 0

\* line 27
emptyQuery(query) == Len(Trim(query)) <= 0

\* line 24
showErrorMessage(message) == "ERROR: " \o message

\* the status test on a status that defaults to 0 when there is no response
ErrorMessageForStatusOnly(e) ==
    IF e.hasCause
    THEN IF e.causeStatus < 500
         THEN showErrorMessage("Busqueda incorrecta, por favor ingresa todos los parametros!")
         ELSE showErrorMessage("Ha ocurrido un error interno, lo sentimos.")
    ELSE showErrorMessage("The API has changed!")

\* lines 37-50: the message for an { error } result (accents left out)
ErrorMessageFor(e) ==
    IF e.hasCause
    THEN IF e.causeStatus # 0 /\ e.causeStatus < 500
         THEN showErrorMessage("Busqueda incorrecta, por favor ingresa todos los parametros!")
         ELSE showErrorMessage("Ha ocurrido un error interno, lo sentimos.")
    ELSE showErrorMessage("The API has changed!")

\* The answers the view is run against: those of ServerOutcomes with at most one record
ViewOutcomes == {o \in ServerOutcomes : Len(o.data) <= 1}

NoAnswer == [kind |-> "none", status |-> 0, error |-> FALSE]

SearchInit ==
    /\ searchQuery = [query |-> <<>>, type |-> "Carnet"]
    /\ patients = <<>>
    /\ error = ""
    /\ inflight = <<>>
    /\ issued = 0
    /\ resolved = 0
    /\ lastAnswer = NoAnswer

\* lines 77-82: typing in the input
QueryInput(value) ==
    /\ OutsideSearch
    /\ searchQuery' = [query |-> value, type |-> searchQuery.type]
    /\ UNCHANGED <<patients, error, inflight, issued, resolved, lastAnswer>>

\* line 72: choosing a search type
TypeSelect(value) ==
    /\ OutsideSearch
    /\ searchQuery' = [query |-> searchQuery.query, type |-> value]
    /\ UNCHANGED <<patients, error, inflight, issued, resolved, lastAnswer>>

\* lines 29-36 and 83: a click on the (enabled) button, up to the await
searchBtnClick ==
    /\ OutsideSearch
    /\ ~emptyQuery(searchQuery.query)       \* disabled={emptyQuery}
    /\ issued < MaxClicks
    /\ IF emptyQuery(searchQuery.query)
       THEN /\ error' = showErrorMessage("Por favor ingrese algo para buscar!")
            /\ UNCHANGED <<inflight, issued>>
       ELSE /\ error' = ""
            /\ inflight' = Append(inflight, [query |-> searchQuery.query,
                                             type |-> searchQuery.type,
                                             n |-> issued + 1])
            /\ issued' = issued + 1
    /\ lastAnswer' = NoAnswer
    /\ UNCHANGED <<searchQuery, patients, resolved>>

RemoveAt(s, i) == SubSeq(s, 1, i - 1) \o SubSeq(s, i + 1, Len(s))

\* lines 36-53: the i-th outstanding call settles and the handler resumes
SearchSettled(i, server) ==
    /\ OutsideSearch
    /\ i \in 1..Len(inflight)
    /\ LET result == searchPatient(inflight[i].query, inflight[i].type, server)
       IN  IF result.settled = "rejected"
           THEN UNCHANGED <<patients, error, lastAnswer>>
           ELSE /\ lastAnswer' = [kind |-> server.kind, status |-> server.status,
                                  error |-> "error" \in result.keys]
                /\ IF "error" \in result.keys
                   THEN /\ error' = ErrorMessageFor(result.error)
                        /\ UNCHANGED patients
                   ELSE /\ patients' = result.result
                        /\ UNCHANGED error
    /\ inflight' = RemoveAt(inflight, i)
    /\ resolved' = resolved + 1
    /\ UNCHANGED <<searchQuery, issued>>

(***************************************************************************)
(* AddPatientView, PatientForm and dataLayer's submitPatientData.          *)
(***************************************************************************)
CuiLength == 13

Digits  == {"0", "1", "2", "3", "4", "5", "6", "7", "8", "9"}
Letters == {"A", "n", "a", "P", "z", " "}

Cui13 == <<"1", "2", "3", "4", "5", "6", "7", "8", "9", "0", "1", "2", "3">>

\* What the user can type into the CUI, names and surnames inputs
RawCuis  == { <<>>, Cui13, <<"x">> \o Cui13, Cui13 \o <<"4">> }
RawNames == { <<>>, <<"A", "n", "a">>, <<"4", "2">> }
RawSurnames == { <<>>, <<"P", "a", "z">>, <<"7">> }
BirthDates == { "", "1990-01-01" }

\* value.replace(/\D/g, "")
OnlyDigits(value) == SelectSeq(value, LAMBDA c : c \in Digits)
\* value.replace(/[^a-zA-Z...\s]/g, "")
OnlyLetters(value) == SelectSeq(value, LAMBDA c : c \in Letters)

\* patientData.isWoman: the state object has no such property
isWoman(data) == Undefined

\* lines 205-208: patientData.isWoman === null fails the validation
validateGender(data) == isWoman(data) # Null

\* lines 193-210: whether the form is valid, and the alert shown when it is not
validateFormData(data) ==
    IF Len(data.cui) # CuiLength
    THEN [valid |-> FALSE, alert |-> "El CUI debe contener exactamente 13 caracteres."]
    ELSE IF Len(data.names) = 0
    THEN [valid |-> FALSE, alert |-> "El campo names es obligatorio y no puede estar vacio."]
    ELSE IF Len(data.surnames) = 0
    THEN [valid |-> FALSE, alert |-> "El campo surnames es obligatorio y no puede estar vacio."]
    ELSE IF data.birthDate = ""
    THEN [valid |-> FALSE, alert |-> "El campo birthDate es obligatorio y no puede estar vacio."]
    ELSE IF ~validateGender(data)
    THEN [valid |-> FALSE, alert |-> "El campo de genero es obligatorio."]
    ELSE [valid |-> TRUE, alert |-> ""]

\* What POST /patient can answer submitPatientData with
SubmitOutcomes ==
    [kind : {"success"}, id : {1, 2}, error : {""}]
    \cup [kind : {"httpError"}, id : {0}, error : {"", "CUI ya existe."}]
    \cup [kind : {"noResponse", "setupError"}, id : {0}, error : {""}]

\* lines 113-119 of the data layer: the body of the POST
PatientBody(data) ==
    [cui |-> data.cui, nombres |-> data.names, apellidos |-> data.surnames,
     esMujer |-> IF Truthy(data.sex) THEN "F" ELSE "M",
     fechaNacimiento |-> data.birthDate]

\* lines 109-137 of the data layer: what the call settles to
submitPatientData(data, server) ==
    CASE server.kind = "success"    -> [threw |-> FALSE, id |-> server.id, message |-> ""]
      [] server.kind = "httpError"  ->
            [threw |-> TRUE, id |-> 0,
             message |-> IF server.error # "" THEN server.error
                         ELSE "Error registering information"]
      [] server.kind = "noResponse" ->
            [threw |-> TRUE, id |-> 0, message |-> "No response was received"]
      [] OTHER -> [threw |-> TRUE, id |-> 0, message |-> "Error setting up request"]

FormInit ==
    /\ patientData \in [cui : {<<>>, Cui13}, names : {<<>>}, surnames : {<<>>},
                        sex : {Null}, birthDate : {""}]
    /\ submitted = <<>>
    /\ posted = <<>>
    /\ lastAlert = ""
    /\ presses = 0
    /\ selectedPatientId = 0
    /\ route = "AddPatient"

\* lines 179-186 and the inputs' onChange: typing into a field
CuiInput(value) ==
    /\ OutsideForm
    /\ route = "AddPatient"
    /\ patientData' = [patientData EXCEPT !.cui = OnlyDigits(value)]
    /\ UNCHANGED <<submitted, posted, lastAlert, presses, selectedPatientId, route>>

NamesInput(value) ==
    /\ OutsideForm
    /\ route = "AddPatient"
    /\ patientData' = [patientData EXCEPT !.names = OnlyLetters(value)]
    /\ UNCHANGED <<submitted, posted, lastAlert, presses, selectedPatientId, route>>

SurnamesInput(value) ==
    /\ OutsideForm
    /\ route = "AddPatient"
    /\ patientData' = [patientData EXCEPT !.surnames = OnlyLetters(value)]
    /\ UNCHANGED <<submitted, posted, lastAlert, presses, selectedPatientId, route>>

BirthDateInput(value) ==
    /\ OutsideForm
    /\ route = "AddPatient"
    /\ patientData' = [patientData EXCEPT !.birthDate = value]
    /\ UNCHANGED <<submitted, posted, lastAlert, presses, selectedPatientId, route>>

\* lines 233-235 and 267-278: choosing a gender radio
handleGenderChange(isFemale) ==
    /\ OutsideForm
    /\ route = "AddPatient"
    /\ patientData' = [patientData EXCEPT !.sex = Str(isFemale)]
    /\ UNCHANGED <<submitted, posted, lastAlert, presses, selectedPatientId, route>>

\* lines 215-226: a press of the button, with the server's answer to the POST
handleSubmit(server) ==
    /\ OutsideForm
    /\ route = "AddPatient"
    /\ presses < MaxSubmits
    /\ presses' = presses + 1
    /\ LET v == validateFormData(patientData)
           r == submitPatientData(patientData, server)
       IN  IF ~v.valid
           THEN /\ lastAlert' = v.alert
                /\ UNCHANGED <<submitted, posted, selectedPatientId, route>>
           ELSE /\ submitted' = Append(submitted, patientData)
                /\ posted' = Append(posted, PatientBody(patientData))
                /\ IF r.threw
                   THEN /\ lastAlert' = "Error al enviar datos: " \o r.message
                        /\ UNCHANGED <<selectedPatientId, route>>
                   ELSE /\ lastAlert' = "Informacion registrada con exito!"
                        /\ selectedPatientId' = r.id
                        /\ route' = "UpdatePatient"
    /\ UNCHANGED patientData


(***************************************************************************)
(* POST /patient: the create-patient handler. Its code is not part of the  *)
(* sources at hand; it follows the handler shape of the specification      *)
(* (validate, connect, one parameterized INSERT, 409 on a unique-          *)
(* constraint violation) and the requests of its integration test.         *)
(***************************************************************************)
\* the CUIs generateUniqueCUI() hands out, one per patient
CuiPool == <<"1234567890123", "3210987654321", "5555555555555",
             "7777777777777", "9999999999999">>

\* a patient stored before the run; `by` is the request that inserted the
\* row, 0 for such a patient
PatientRow(i) == [id |-> i, cui |-> CuiPool[i], nombres |-> "Ana", by |-> 0]

\* the request bodies of the tests: with or without cui, two patients' names
CreatePayloads ==
    [cui : {Undefined, Str(CuiPool[1]), Str(CuiPool[2])}, nombres : {"Juan", "Carlos"}]

Answer(status, text, id) == [status |-> status, text |-> text, id |-> id]
NoAnswerYet == Answer(0, "", 0)

\* an INSERT that no unique constraint guards
InsertPatientUnconstrained(table, row) == [ok |-> TRUE, table |-> table \cup {row}]

\* INSERT INTO paciente: one statement, under the unique constraint on CUI
InsertPatient(table, row) ==
    IF \E r \in table : r.cui = row.cui
    THEN [ok |-> FALSE, table |-> table]
    ELSE [ok |-> TRUE, table |-> table \cup {row}]

PatientInit ==
    /\ paciente \in { {}, {PatientRow(1)} }
    /\ posts = <<>>

PatientIdle ==
    /\ paciente = {}
    /\ posts = <<>>

Settle(i, answer) ==
    posts' = [posts EXCEPT ![i] = [@ EXCEPT !.pc = "done", !.answer = answer]]

\* a request arrives; its body is validated before anything else
CreatePatientInvoke(body) ==
    /\ OutsidePatient
    /\ Len(posts) < MaxRequests
    /\ posts' = Append(posts,
            IF ~Truthy(body.cui)
            THEN [body |-> body, pc |-> "done",
                  answer |-> Answer(400, "CUI es requerido.", 0)]
            ELSE [body |-> body, pc |-> "connecting", answer |-> NoAnswerYet])
    /\ UNCHANGED paciente

\* the request's connect() settles
CreatePatientConnectDone(i, connected) ==
    /\ OutsidePatient
    /\ i \in 1..Len(posts)
    /\ posts[i].pc = "connecting"
    /\ IF connected
       THEN posts' = [posts EXCEPT ![i].pc = "inserting"]
       ELSE Settle(i, Answer(500, "", 0))
    /\ UNCHANGED paciente

\* the request's INSERT settles
CreatePatientInsertDone(i, answered) ==
    /\ OutsidePatient
    /\ i \in 1..Len(posts)
    /\ posts[i].pc = "inserting"
    /\ IF ~answered
       THEN /\ Settle(i, Answer(500, "", 0))
            /\ UNCHANGED paciente
       ELSE LET row == [id |-> Cardinality(paciente) + 1, cui |-> posts[i].body.cui.v,
                        nombres |-> posts[i].body.nombres, by |-> i]
                inserted == InsertPatient(paciente, row)
            IN  /\ paciente' = inserted.table
                /\ IF inserted.ok
                   THEN Settle(i, Answer(200, "", row.id))
                   ELSE Settle(i, Answer(409, "CUI ya existe.", 0))

(***************************************************************************)
(* GET /patient/surgical-history/{id}. The handler's code is not part of   *)
(* the sources at hand either; it follows the handler shape of the         *)
(* specification and the lookups of its integration test.                  *)
(***************************************************************************)
\* the ids the lookups carry: patients' ids, the two ids of the tests that
\* name no patient, a text that is no integer, and no id at all
LookupIds ==
    {Str("1"), Str("2"), Str("3"), Str("999999"), Str("10000"), Str("abc"), Undefined}

\* the text parameter $1 read as the integer id: 0 when it is no integer
\* (patients' ids start at 1)
LookupInteger(s) ==
    CASE s = "1" -> 1 [] s = "2" -> 2 [] s = "3" -> 3
      [] s = "10000" -> 10000 [] s = "999999" -> 999999 [] OTHER -> 0

SurgeryRows ==
    [id_paciente : 1..MaxPatientId, surgeryType : {"Appendectomy"},
     surgeryYear : {"2022", "2023"}]

NoLookup == [pc |-> "idle", id |-> Undefined, status |-> 0, message |-> "", data |-> {}]

\* an empty history answered as a success with an empty list
RespondWithEmptyHistory(rows) == [status |-> 200, message |-> "", data |-> rows]

\* zero rows give 404, otherwise the rows are returned
RespondToSurgicalQuery(rows) ==
    IF rows = {}
    THEN [status |-> 404, message |-> "No surgical history found for the provided ID.",
          data |-> {}]
    ELSE [status |-> 200, message |-> "", data |-> rows]

\* the rows of the patient whose id is $1
SurgicalQueryResults(id) ==
    {s \in surgeries : s.id_paciente = LookupInteger(id.v)}

\* every content of the two tables, surgeries recorded for stored patients only
SurgicalInit ==
    /\ paciente \in SUBSET {PatientRow(i) : i \in 1..MaxPatientId}
    /\ posts = <<>>
    /\ surgeries \in SUBSET SurgeryRows
    /\ \A s \in surgeries : \E p \in paciente : p.id = s.id_paciente
    /\ lookup = NoLookup

SurgicalIdle ==
    /\ surgeries = {}
    /\ lookup = NoLookup

\* a lookup arrives; a missing id is answered 400
SurgicalInvoke(id) ==
    /\ OutsideSurgical
    /\ lookup.pc \in {"idle", "done"}
    /\ lookup' = IF ~Truthy(id)
                 THEN [pc |-> "done", id |-> id, status |-> 400,
                       message |-> "Invalid request: No id supplied!", data |-> {}]
                 ELSE [NoLookup EXCEPT !.pc = "connecting", !.id = id]
    /\ UNCHANGED surgeries

\* connect() settles
SurgicalConnectDone(connected) ==
    /\ OutsideSurgical
    /\ lookup.pc = "connecting"
    /\ lookup' = IF connected
                 THEN [lookup EXCEPT !.pc = "querying"]
                 ELSE [lookup EXCEPT !.pc = "done", !.status = 500]
    /\ UNCHANGED surgeries

\* the query settles and the response is built
SurgicalQueryDone(answered) ==
    /\ OutsideSurgical
    /\ lookup.pc = "querying"
    /\ lookup' = IF answered
                 THEN LET r == RespondToSurgicalQuery(SurgicalQueryResults(lookup.id))
                      IN  [lookup EXCEPT !.pc = "done", !.status = r.status,
                                         !.message = r.message, !.data = r.data]
                 ELSE [lookup EXCEPT !.pc = "done", !.status = 500]
    /\ UNCHANGED surgeries

(***************************************************************************)
(* The specifications.                                                     *)
(***************************************************************************)
HandlerIdle ==
    /\ pc = "idle"
    /\ event = NoEvent
    /\ estudiante = {}
    /\ client = "undefined"
    /\ dbResponse = NoDbResponse
    /\ queries = 0
    /\ response = NoResponse
    /\ outcome = "pending"
    /\ raised = NoError

FormIdle == FormInit /\ patientData.cui = <<>>

BackendIdle == PatientIdle /\ SurgicalIdle

\* the student-info handler, one invocation after another, over every content
\* of the ESTUDIANTE table
Init == HandlerInit /\ ApiInit /\ SearchInit /\ FormIdle /\ BackendIdle

Next ==
    \/ \E ev \in Events, getClient \in {Ok} \cup GetClientErrors : Invoke(ev, getClient)
    \/ \E result \in {Ok} \cup ConnectErrors : ConnectDone(result)
    \/ \E result \in {Ok} \cup QueryErrors : QueryDone(result)
    \/ Finally

Spec == Init /\ [][Next]_vars

\* searchPatient called once, on every query, type and answer of the server
ApiSpecInit ==
    /\ HandlerIdle /\ SearchInit /\ FormIdle /\ BackendIdle
    /\ apiCall \in ApiCalls
    /\ apiResult = NoApiResult

ApiNext == SearchPatientCall

ApiSpec == ApiSpecInit /\ [][ApiNext]_vars

\* SearchPatientView
SearchSpecInit == HandlerIdle /\ ApiInit /\ SearchInit /\ FormIdle /\ BackendIdle

SearchNext ==
    \/ \E value \in Queries : QueryInput(value)
    \/ \E value \in SearchTypes : TypeSelect(value)
    \/ searchBtnClick
    \/ \E i \in 1..MaxClicks, server \in ViewOutcomes : SearchSettled(i, server)

SearchSpec == SearchSpecInit /\ [][SearchNext]_vars

\* AddPatientView with its PatientForm
FormSpecInit == HandlerIdle /\ ApiInit /\ SearchInit /\ FormInit /\ BackendIdle

FormNext ==
    \/ \E value \in RawCuis : CuiInput(value)
    \/ \E value \in RawNames : NamesInput(value)
    \/ \E value \in RawSurnames : SurnamesInput(value)
    \/ \E value \in BirthDates : BirthDateInput(value)
    \/ \E isFemale \in {"F", "M"} : handleGenderChange(isFemale)
    \/ \E server \in SubmitOutcomes : handleSubmit(server)

FormSpec == FormSpecInit /\ [][FormNext]_vars

\* POST /patient requests, concurrent ones interleaved at their awaits
PatientSpecInit ==
    HandlerIdle /\ ApiInit /\ SearchInit /\ FormIdle /\ PatientInit /\ SurgicalIdle

PatientNext ==
    \/ \E body \in CreatePayloads : CreatePatientInvoke(body)
    \/ \E i \in 1..MaxRequests, connected \in BOOLEAN : CreatePatientConnectDone(i, connected)
    \/ \E i \in 1..MaxRequests, answered \in BOOLEAN : CreatePatientInsertDone(i, answered)

PatientSpec == PatientSpecInit /\ [][PatientNext]_vars

\* surgical-history lookups, one after another, over every content of the tables
SurgicalSpecInit ==
    HandlerIdle /\ ApiInit /\ SearchInit /\ FormIdle /\ SurgicalInit

SurgicalNext ==
    \/ \E id \in LookupIds : SurgicalInvoke(id)
    \/ \E connected \in BOOLEAN : SurgicalConnectDone(connected)
    \/ \E answered \in BOOLEAN : SurgicalQueryDone(answered)

SurgicalSpec == SurgicalSpecInit /\ [][SurgicalNext]_vars

(***************************************************************************)
(* Properties of the student-info handler (checked under Spec).            *)
(***************************************************************************)
Finished == pc = "done"
MethodIsGet == event.httpMethod = "GET"
IdMissing == ~event.pathParameters.present \/ ~Truthy(event.pathParameters.id)
MatchingRows ==
    {r \in estudiante : r.id_paciente = PgInteger(event.pathParameters.id.v)}

\* C1: when an invocation has finished, on whatever exit path, the database
\* client it created (if it created one) has had end() called on it: no
\* invocation finishes with a client that is created or connected and not ended.
C1_ClientEndedOnEveryExit ==
    Finished => client \in {"undefined", "ended"}

\* an invocation whose connect() failed has finished with 500, its client ended
C1_Witness ==
    Finished /\ client = "ended" /\ response.statusCode = 500 /\ raised \in ConnectErrors

\* C2: an invocation whose httpMethod is not GET finishes by returning an
\* error envelope (a 4xx status with a body), without having opened a
\* database connection.
C2_NonGetReturnsErrorEnvelope ==
    (Finished /\ ~MethodIsGet) =>
        /\ outcome = "returned"
        /\ response.statusCode \in 400..499
        /\ response.body # NoBody
        /\ client = "undefined"

\* C3: every exception raised during an invocation is caught and answered
\* with statusCode 500 and the serialized error as body; no invocation ends
\* by propagating an exception to its caller.
C3_EveryExceptionBecomes500 ==
    Finished =>
        /\ outcome = "returned"
        /\ raised # NoError =>
              /\ response.statusCode = 500
              /\ response.body = JSONStringifyError(raised)

\* C4: a GET invocation in which the id path parameter is missing (id empty
\* or undefined, or no pathParameters at all) finishes with statusCode 400 and
\* the message "Invalid request: No id supplied!", without any SQL executed.
\* Stated for the invocations whose client was created and connected: the
\* others end in 500 before the id is read.
C4_MissingIdYields400 ==
    (Finished /\ MethodIsGet /\ IdMissing /\ raised \notin GetClientErrors \cup ConnectErrors) =>
        /\ outcome = "returned"
        /\ response.statusCode = 400
        /\ response.body = JSONStringifyMessage("Invalid request: No id supplied!")
        /\ queries = 0

\* C5: in a GET invocation with a non-empty id, the status follows the row
\* count of the query: zero rows give 404 with the not-found message, one row
\* gives 200 with the mapped first row as body; 200 is returned only when a
\* row of the table matched the id, 404 only when none did.
C5_StatusFollowsRowCount ==
    (Finished /\ MethodIsGet /\ ~IdMissing) =>
        /\ dbResponse.rowCount = 0 =>
              /\ response.statusCode = 404
              /\ response.body = JSONStringifyMessage(
                     "Invalid request: No student with the given ID found.")
        /\ dbResponse.rowCount = 1 =>
              /\ response.statusCode = 200
              /\ response.body.student = mapToAPIStudentInfo(dbResponse.rows[1])
        /\ response.statusCode = 200 =>
              \E r \in MatchingRows : response.body.student = mapToAPIStudentInfo(r)
        /\ response.statusCode = 404 => MatchingRows = {}
        /\ response.statusCode \in {200, 404} <=> dbResponse # NoDbResponse

\* a student found among several rows of the table
C5_Witness ==
    /\ Finished /\ MethodIsGet /\ ~IdMissing
    /\ response.statusCode = 200
    /\ Cardinality(MatchingRows) > 1

\* C6: every response the handler returns, whatever its status, carries the
\* CORS headers Access-Control-Allow-Origin: * and an
\* Access-Control-Allow-Methods whitelist.
C6_EveryResponseHasCORS ==
    outcome = "returned" =>
        /\ <<"Access-Control-Allow-Origin", "*">> \in response.headers
        /\ \E h \in response.headers :
              h[1] = "Access-Control-Allow-Methods" /\ h[2] # ""

\* a 500 has been returned
C6_Witness ==
    outcome = "returned" /\ response.statusCode = 500 /\ raised # NoError

(***************************************************************************)
(* Properties of searchPatient (checked under ApiSpec).                    *)
(***************************************************************************)
\* C7: for every query, type and answer of the server, searchPatient resolves
\* to an object with exactly one of the keys result and error; it never rejects.
C7_ResultOrErrorNeverRejects ==
    apiCall.called =>
        /\ apiResult.settled = "resolved"
        /\ apiResult.keys \in { {"result"}, {"error"} }

\* a 2xx answer whose data is no array has been turned into { error }
C7_Witness ==
    /\ apiCall.called
    /\ apiCall.server.kind = "success" /\ ~apiCall.server.isArray
    /\ apiResult.keys = {"error"}

\* a record lacks a field when the field is absent, null or empty (what !r.field tests)
Lacks(r) == ~Truthy(r.id) \/ ~Truthy(r.nombres) \/ ~Truthy(r.apellidos)

\* C8: for a successful answer holding a list of records: if any record lacks
\* id, nombres or apellidos the call returns { error } and no result;
\* otherwise it returns { result } with one preview per record, in the same
\* order, each holding only id and names = nombres + " " + apellidos.
C8_PreviewsOrError ==
    (apiCall.called /\ apiCall.server.kind = "success" /\ apiCall.server.isArray) =>
        LET data == apiCall.server.data
        IN  IF \E i \in 1..Len(data) : Lacks(data[i])
            THEN apiResult.keys = {"error"} /\ apiResult.result = <<>>
            ELSE /\ apiResult.keys = {"result"}
                 /\ Len(apiResult.result) = Len(data)
                 /\ \A i \in 1..Len(data) :
                       /\ DOMAIN apiResult.result[i] = {"id", "names"}
                       /\ apiResult.result[i].id = data[i].id
                       /\ apiResult.result[i].names =
                              data[i].nombres.v \o " " \o data[i].apellidos.v

\* two complete records have been turned into two previews
C8_Witness ==
    /\ apiCall.called /\ apiCall.server.kind = "success" /\ apiCall.server.isArray
    /\ Len(apiCall.server.data) = 2
    /\ apiCall.server.data[1] # apiCall.server.data[2]
    /\ apiResult.keys = {"result"}

(***************************************************************************)
(* Properties of PatientForm (checked under FormSpec).                     *)
(***************************************************************************)
\* C9: submitPatientData is called only with a form that passed validation:
\* a CUI of exactly 13 characters, non-empty names, surnames and birthDate,
\* and a selected gender (sex is not null).
C9_SubmitOnlyValidForms ==
    \A i \in 1..Len(submitted) :
        /\ Len(submitted[i].cui) = CuiLength
        /\ submitted[i].names # <<>>
        /\ submitted[i].surnames # <<>>
        /\ submitted[i].birthDate # ""
        /\ submitted[i].sex # Null

(***************************************************************************)
(* Properties of SearchPatientView (checked under SearchSpec).             *)
(***************************************************************************)
\* C10 as stated: at most one searchPatientsApiCall of the view is in flight.
C10_AtMostOneInFlight == Len(inflight) <= 1

\* C10, amended: every click on the button while the query is not blank
\* issues exactly one call, whether or not earlier calls are outstanding; the
\* calls in flight are the clicks not yet answered, each with a non-blank query.
C10_OneCallPerClick ==
    /\ Len(inflight) = issued - resolved
    /\ \A i \in 1..Len(inflight) :
          /\ Trim(inflight[i].query) # <<>>
          /\ inflight[i].n \in 1..issued
          /\ \A j \in 1..Len(inflight) : inflight[i].n = inflight[j].n => i = j

\* two calls of the view are in flight
C10_Witness == Len(inflight) = 2

\* The message C11 names for an answer of the server that searchPatient
\* turns into { error }: by the kind of the answer, not by the code's tests.
ClaimedMessage(answer) ==
    CASE answer.kind = "httpError" /\ answer.status < 500 ->
            "ERROR: Busqueda incorrecta, por favor ingresa todos los parametros!"
      [] answer.kind = "httpError" /\ answer.status >= 500 ->
            "ERROR: Ha ocurrido un error interno, lo sentimos."
      [] answer.kind = "network" ->
            "ERROR: Ha ocurrido un error interno, lo sentimos."
      [] OTHER -> "ERROR: The API has changed!"

\* C11: when a search of the view has come back as { error }, the view shows
\* exactly the message of the error's kind: the bad-request message for a
\* cause whose response status is below 500, the server-error message for a
\* cause with status 500 or above or with no response, and "The API has
\* changed!" for an error without cause (a 2xx answer that failed validation).
C11_ErrorMessageByKind ==
    lastAnswer.error => error = ClaimedMessage(lastAnswer)

\* a search got no response at all and the view shows the server-error message
C11_Witness ==
    /\ lastAnswer.error /\ lastAnswer.kind = "network"
    /\ error = "ERROR: Ha ocurrido un error interno, lo sentimos."
    /\ inflight = <<>>

\* C14: in every body POSTed to /patient for a form in which a gender was
\* selected, esMujer is the selected value: "F" for Femenino (sex = "F") and
\* "M" for Masculino (sex = "M").
C14_EsMujerFollowsSex ==
    \A i \in 1..Len(posted) :
        submitted[i].sex \in {Str("F"), Str("M")} =>
            posted[i].esMujer = submitted[i].sex.v

\* C15 as stated: a GET invocation answered with 400 has finished without a
\* database client having been created or connected.
C15_ValidatesBeforeConnecting ==
    (Finished /\ MethodIsGet /\ response.statusCode = 400) => client = "undefined"

\* C15, amended: the id is read and validated only after the connection has
\* been opened. No response exists while connect() is pending; an invocation
\* whose client could not be created or connected ends in 500 whatever its
\* id; a GET whose connection was opened and whose pathParameters carry a
\* falsy id is answered 400; and every invocation answered 400 raised no
\* exception, executed no SQL and has ended the client it had connected.
C15_ConnectsBeforeValidating ==
    /\ pc = "connecting" => (client = "created" /\ response = NoResponse)
    /\ (Finished /\ raised \in GetClientErrors \cup ConnectErrors) =>
            response.statusCode = 500
    /\ ( /\ Finished /\ MethodIsGet
         /\ raised \notin GetClientErrors \cup ConnectErrors
         /\ event.pathParameters.present
         /\ ~Truthy(event.pathParameters.id) ) => response.statusCode = 400
    /\ (Finished /\ response.statusCode = 400) =>
            /\ MethodIsGet
            /\ raised = NoError
            /\ queries = 0
            /\ client = "ended"

\* a GET with an empty id has been answered 400 after its client was
\* connected, and the client has been ended
C15_Witness ==
    /\ Finished /\ MethodIsGet
    /\ event.pathParameters.present /\ event.pathParameters.id = Str("")
    /\ response = BadRequestResponse
    /\ client = "ended"

\* C16: once a newer search has been answered, the answer to an older search
\* changes neither the displayed patient list nor the displayed error
\* message, so that when all calls have completed the view shows the outcome
\* of the most recently issued search.
C16_OlderAnswerNeverOverwrites ==
    [][ \A i \in 1..Len(inflight) :
          ( /\ resolved' = resolved + 1
            /\ inflight' = RemoveAt(inflight, i)
            /\ inflight[i].n < issued
            /\ \A j \in 1..Len(inflight) : inflight[j].n # issued )
          => (patients' = patients /\ error' = error) ]_vars

(***************************************************************************)
(* Properties of POST /patient (checked under PatientSpec).                *)
(***************************************************************************)
RowsOf(i) == {r \in paciente : r.by = i}
Answered(i) == posts[i].pc = "done" /\ posts[i].answer.status \notin {400, 500}

\* C12: in every reachable state no two stored patients have the same CUI;
\* a request answered by the database whose CUI is that of a patient stored
\* by someone else is answered 409 with error "CUI ya existe."; and a request
\* adds a patient only when it is answered with success, so a 409 (like a
\* 400, a 500 or a request still under way) has added none.
C12_CuiUniqueDuplicateRejected ==
    /\ \A r1, r2 \in paciente : r1.cui = r2.cui => r1 = r2
    /\ \A i \in 1..Len(posts) :
          /\ ( /\ Answered(i)
               /\ \E r \in paciente : r.cui = posts[i].body.cui.v /\ r.by # i )
             => posts[i].answer = Answer(409, "CUI ya existe.", 0)
          /\ (Answered(i) /\ posts[i].answer.status = 409) =>
                \E r \in paciente : r.cui = posts[i].body.cui.v /\ r.by # i
          /\ RowsOf(i) # {} <=> (posts[i].pc = "done" /\ posts[i].answer.status = 200)
          /\ Cardinality(RowsOf(i)) <= 1

\* two requests carried the same CUI under different names; the one that
\* arrived first was overtaken by the second and answered 409
C12_Witness ==
    /\ Len(posts) = 2
    /\ posts[1].body.cui = posts[2].body.cui
    /\ posts[1].body.nombres # posts[2].body.nombres
    /\ posts[1].answer = Answer(409, "CUI ya existe.", 0)
    /\ posts[2].pc = "done" /\ posts[2].answer.status = 200
    /\ RowsOf(1) = {} /\ RowsOf(2) # {}

(***************************************************************************)
(* Properties of the surgical-history lookup (checked under SurgicalSpec). *)
(***************************************************************************)
LookupAnswered == lookup.pc = "done" /\ Truthy(lookup.id) /\ lookup.status # 500
LookupPatients == {p \in paciente : p.id = LookupInteger(lookup.id.v)}
Recorded == {s \in surgeries : s.id_paciente = LookupInteger(lookup.id.v)}
NotFound ==
    /\ lookup.status = 404
    /\ lookup.message = "No surgical history found for the provided ID."

====
